---------------------------- MODULE Spec2Model ----------------------------
(***************************************************************************)
(* Model of the anomaly-detector base class (src/base_ano_det.py), the     *)
(* DADGT detector built on it (src/dadgt/dadgt_utils.py) and the fit loop  *)
(* of src/anotwin/train.py.                                                *)
(*                                                                         *)
(* Numbers.  Rates (fpr, tpr, max_fpr, min_tpr) are integers counted in    *)
(* units of 1/RateUnits, so the rate 1.0 is the integer One.  Thresholds   *)
(* and scores are integers; quotients are kept exact as fractions          *)
(* <<numerator, denominator>> with a positive denominator.                 *)
(***************************************************************************)
EXTENDS Integers, Sequences, FiniteSets, TLC

VARIABLES
    thresholds,   \* threshold policies: the thresholds argument
    rates,        \* threshold policies: the tpr / fpr argument
    ret,          \* threshold policies: the latest call and its outcome
    prev,         \* threshold policies: the call made before the latest one
    roc,          \* calibration: the ROC curve [thresholds, fpr, tpr]
    scores,       \* calibration: the raw scores
    cparams,      \* calibration: self.params, a function whose DOMAIN is the keys set
    calc_ret,     \* calibration: the outcome of calc_thresholds
    det,          \* detector: the attributes of the DADGT instance
    params,       \* detector: self.params, a function whose DOMAIN is the keys set
    world,        \* detector: the number of model objects built so far
    last,         \* detector: the latest call, its arguments, outcome and effects
    hist,         \* detector: history of the calls that completed
    fit           \* fit loop: the locals of train_model and the live weights

thresh_vars == <<thresholds, rates, ret, prev>>

calib_vars == <<roc, scores, cparams, calc_ret>>

det_vars == <<det, params, world, last, hist>>

fit_vars == <<fit>>

vars == <<thresh_vars, calib_vars, det_vars, fit_vars>>

---------------------------------------------------------------------------
(* Bounds of the model. *)

\* Longest ROC curve drawn, also the largest threshold value.
MaxLen == 3

\* Resolution of the rate grid: a rate r stands for r / RateUnits.
RateUnits == 3

\* The rate 1.0.
One == RateUnits

\* Rate arguments offered to the policies: 0 .. 1.0 and one value above 1.0.
RateArgs == 0 .. (One + 1)

---------------------------------------------------------------------------
(* Outcomes of a call. *)

Value(v) == [kind |-> "value", val |-> v]

ReturnsNone == [kind |-> "None", val |-> 0]

Raises(e) == [kind |-> e, val |-> 0]

NotCalled == [fn |-> "none", arg |-> 0, out |-> ReturnsNone]

\* Python's None, or an attribute not set yet; Some(v) is a value that is there.
None == <<>>

Some(v) == <<v>>

Min2(a, b) == IF a <= b THEN a ELSE b

---------------------------------------------------------------------------
(* src/base_ano_det.py: the two ROC threshold policies. *)

\* for th, rate in zip(thresholds, tpr): if min_tpr <= rate: return th
\* then: assert tpr[-1] == 1.0; return None
RECURSIVE TprScan(_, _, _, _)
TprScan(ths, tpr, min_tpr, i) ==
    IF i > Min2(Len(ths), Len(tpr))
    THEN IF tpr[Len(tpr)] = One THEN ReturnsNone ELSE Raises("AssertionError")
    ELSE IF min_tpr <= tpr[i] THEN Value(ths[i])
         ELSE TprScan(ths, tpr, min_tpr, i + 1)

\* Mutant: the comparison is strict (min_tpr < rate).
RECURSIVE TprScanStrict(_, _, _, _)
TprScanStrict(ths, tpr, min_tpr, i) ==
    IF i > Min2(Len(ths), Len(tpr))
    THEN IF tpr[Len(tpr)] = One THEN ReturnsNone ELSE Raises("AssertionError")
    ELSE IF min_tpr < tpr[i] THEN Value(ths[i])
         ELSE TprScanStrict(ths, tpr, min_tpr, i + 1)

tpr_strict_compare(ths, tpr, min_tpr) == TprScanStrict(ths, tpr, min_tpr, 1)

binary_clf_thresh_by_tpr(ths, tpr, min_tpr) == TprScan(ths, tpr, min_tpr, 1)

\* for th, next_rate in zip(thresholds, fpr[1:]): if max_fpr <= next_rate: return th
\* then: return thresholds[-1]
RECURSIVE FprScan(_, _, _, _)
FprScan(ths, fpr, max_fpr, i) ==
    IF i > Min2(Len(ths), Len(fpr) - 1)
    THEN Value(ths[Len(ths)])
    ELSE IF max_fpr <= fpr[i + 1] THEN Value(ths[i])
         ELSE FprScan(ths, fpr, max_fpr, i + 1)

\* Mutant: each threshold is paired with its own rate, as the TPR policy does.
RECURSIVE FprScanAligned(_, _, _, _)
FprScanAligned(ths, fpr, max_fpr, i) ==
    IF i > Min2(Len(ths), Len(fpr))
    THEN Value(ths[Len(ths)])
    ELSE IF max_fpr <= fpr[i] THEN Value(ths[i])
         ELSE FprScanAligned(ths, fpr, max_fpr, i + 1)

fpr_aligned_pairing(ths, fpr, max_fpr) == FprScanAligned(ths, fpr, max_fpr, 1)

\* Mutant: the fallback is the strictest threshold, thresholds[0].
RECURSIVE FprScanFirst(_, _, _, _)
FprScanFirst(ths, fpr, max_fpr, i) ==
    IF i > Min2(Len(ths), Len(fpr) - 1)
    THEN Value(ths[1])
    ELSE IF max_fpr <= fpr[i + 1] THEN Value(ths[i])
         ELSE FprScanFirst(ths, fpr, max_fpr, i + 1)

fpr_fallback_first(ths, fpr, max_fpr) == FprScanFirst(ths, fpr, max_fpr, 1)

binary_clf_thresh_by_fpr(ths, fpr, max_fpr) == FprScan(ths, fpr, max_fpr, 1)

---------------------------------------------------------------------------
(* Specification of the threshold policies: Init draws the arguments, the  *)
(* actions apply the functions.                                            *)

StrictlyDecreasing(s) == \A i \in 1 .. Len(s) - 1 : s[i] > s[i + 1]

NonDecreasing(s) == \A i \in 1 .. Len(s) - 1 : s[i] <= s[i + 1]

SeqsOfLen(S, n) == [1 .. n -> S]

ThresholdSeqs(n) == {s \in SeqsOfLen(1 .. MaxLen, n) : StrictlyDecreasing(s)}

ThreshIdle ==
    /\ thresholds = <<>>
    /\ rates = <<>>
    /\ ret = NotCalled
    /\ prev = NotCalled

CalibIdle ==
    /\ roc = [thresholds |-> <<>>, fpr |-> <<>>, tpr |-> <<>>]
    /\ scores = <<>>
    /\ cparams = <<>>
    /\ calc_ret = [kind |-> "pending"]

NoCall == [op |-> "none", args |-> None, kind |-> "ok", ret |-> None, did |-> {}]

DetIdle ==
    /\ det = [experiment_no |-> None, test_target |-> None, model |-> None,
              learner |-> None, weight_name |-> None]
    /\ params = [seed |-> 0]
    /\ world = [n_models |-> 0]
    /\ last = NoCall
    /\ hist = [done |-> {}, setup_current |-> FALSE, calibrated |-> None]

FitIdle == fit = [pc |-> "idle"]

ThreshInit ==
    /\ \E n \in 2 .. MaxLen :
          /\ thresholds \in ThresholdSeqs(n)
          /\ rates \in SeqsOfLen(0 .. One, n)
    /\ ret = NotCalled
    /\ prev = NotCalled
    /\ CalibIdle
    /\ DetIdle
    /\ FitIdle

CallByTpr ==
    \E m \in RateArgs :
        /\ ret' = [fn |-> "tpr", arg |-> m,
                   out |-> binary_clf_thresh_by_tpr(thresholds, rates, m)]
        /\ prev' = ret
        /\ UNCHANGED <<thresholds, rates, calib_vars, det_vars, fit_vars>>

CallByFpr ==
    \E m \in RateArgs :
        /\ ret' = [fn |-> "fpr", arg |-> m,
                   out |-> binary_clf_thresh_by_fpr(thresholds, rates, m)]
        /\ prev' = ret
        /\ UNCHANGED <<thresholds, rates, calib_vars, det_vars, fit_vars>>

ThreshNext == CallByTpr \/ CallByFpr

SpecThresh == ThreshInit /\ [][ThreshNext]_vars

---------------------------------------------------------------------------
(* Claims about the threshold policies (checked under SpecThresh).         *)

\* A valid ROC rate sequence: thresholds strictly decreasing, the rate
\* non-decreasing within [0, 1] and ending at 1.0.
ValidCurve ==
    /\ Len(thresholds) = Len(rates)
    /\ StrictlyDecreasing(thresholds)
    /\ NonDecreasing(rates)
    /\ \A i \in 1 .. Len(rates) : rates[i] \in 0 .. One
    /\ rates[Len(rates)] = One

QualifyingIn(tpr, m) == {i \in 1 .. Len(tpr) : tpr[i] >= m}

CrossingIn(fpr, m) == {i \in 1 .. Len(fpr) - 1 : fpr[i + 1] >= m}

Qualifying(m) == QualifyingIn(rates, m)

Crossing(m) == CrossingIn(rates, m)

Least(S) == CHOOSE i \in S : \A j \in S : i <= j

\* C1: on a valid ROC curve and min_tpr in (0, 1], binary_clf_thresh_by_tpr
\* returns thresholds[i] for the smallest index i with tpr[i] >= min_tpr: the
\* paired TPR is never below min_tpr and ties resolve to the leftmost index.
C1_MinTprLeftmost ==
    (ret.fn = "tpr" /\ ValidCurve /\ ret.arg \in 1 .. One) =>
        /\ Qualifying(ret.arg) # {}
        /\ ret.out = Value(thresholds[Least(Qualifying(ret.arg))])
        /\ rates[Least(Qualifying(ret.arg))] >= ret.arg

\* C1 witness: a tie in tpr, resolved to the left, past the first index.
C1_Witness ==
    /\ ret.fn = "tpr" /\ ValidCurve /\ ret.arg \in 1 .. One
    /\ Len(rates) = 3
    /\ rates[1] < ret.arg /\ rates[2] = rates[3] /\ rates[2] >= ret.arg
    /\ ret.out = Value(thresholds[2])

\* C2: on a curve of at least two points and any max_fpr,
\* binary_clf_thresh_by_fpr returns thresholds[i] for the smallest i with
\* fpr[i+1] >= max_fpr, and thresholds[-1] when there is none; it never fails.
C2_MaxFprNextRate ==
    (ret.fn = "fpr" /\ Len(rates) >= 2) =>
        /\ ret.out.kind = "value"
        /\ Crossing(ret.arg) # {} =>
               ret.out = Value(thresholds[Least(Crossing(ret.arg))])
        /\ Crossing(ret.arg) = {} =>
               ret.out = Value(thresholds[Len(thresholds)])

\* C2 witness: the spec's scenario on the rate grid (thresholds 3, 2, 1,
\* fpr = 0, 1/RateUnits, 1.0 and max_fpr = 2/RateUnits): the middle threshold
\* is returned although its own fpr is below the bound.
C2_Witness ==
    /\ ret.fn = "fpr" /\ ret.arg = 2
    /\ thresholds = <<3, 2, 1>> /\ rates = <<0, 1, One>>
    /\ ret.out = Value(2)

\* C3: binary_clf_thresh_by_fpr is monotonic in max_fpr: on one valid curve,
\* of two calls the one with the larger bound returns a threshold that is less
\* than or equal to the other's, the thresholds[-1] fallback included.
C3_FprMonotonic ==
    (ret.fn = "fpr" /\ prev.fn = "fpr" /\ ValidCurve) =>
        /\ ret.out.kind = "value" /\ prev.out.kind = "value"
        /\ prev.arg <= ret.arg => ret.out.val <= prev.out.val
        /\ ret.arg <= prev.arg => prev.out.val <= ret.out.val

\* C3 witness: two calls with increasing bounds, the second taking the
\* fallback and returning a strictly smaller threshold.
C3_Witness ==
    /\ ret.fn = "fpr" /\ prev.fn = "fpr" /\ ValidCurve
    /\ prev.arg < ret.arg
    /\ Crossing(ret.arg) = {} /\ Crossing(prev.arg) # {}
    /\ ret.out.val < prev.out.val

\* C4 (as claimed): whenever no (threshold, tpr) pair has tpr >= min_tpr,
\* binary_clf_thresh_by_tpr fails; it never returns None.
C4_ExhaustedScanFails ==
    (ret.fn = "tpr" /\ Qualifying(ret.arg) = {}) =>
        ret.out.kind = "AssertionError"

---------------------------------------------------------------------------
(* src/base_ano_det.py: BaseAnoDet.calc_thresholds.                        *)
(*                                                                         *)
(* Scores and thresholds are integers counted in units of half a machine   *)
(* epsilon, so that np.finfo(float).eps is the integer Eps and a mean can  *)
(* lie strictly between 0 and eps.  Means and quotients are exact          *)
(* fractions <<numerator, denominator>>; np.std's square root is rounded   *)
(* down to the grid of the mean.                                           *)

\* np.finfo(float).eps, in units of half an epsilon.
Eps == 2

\* Longest score sequence drawn.
MaxScores == 2

\* The score values drawn: negative, below eps and above eps (pairs of them
\* give a zero mean and a mean equal to eps).
ScoreValues == {-1, 1, 3}

\* The values of params.sigma_k drawn.
SigmaKs == {1, 2}

Frac(n, d) == <<n, d>>

Whole(n) == <<n, 1>>

FracLe(a, b) == a[1] * b[2] <= b[1] * a[2]

FracEq(a, b) == a[1] * b[2] = b[1] * a[2]

FracPos(a) == a[1] > 0 /\ a[2] > 0

FracMul(a, b) == <<a[1] * b[1], a[2] * b[2]>>

\* a / b; a zero divisor leaves a zero denominator (numpy's inf or nan).
FracDiv(a, b) ==
    IF b[1] >= 0 THEN <<a[1] * b[2], a[2] * b[1]>>
    ELSE <<0 - a[1] * b[2], 0 - a[2] * b[1]>>

RECURSIVE SumTo(_, _)
SumTo(s, i) == IF i = 0 THEN 0 ELSE s[i] + SumTo(s, i - 1)

RECURSIVE SumSqTo(_, _)
SumSqTo(s, i) == IF i = 0 THEN 0 ELSE s[i] * s[i] + SumSqTo(s, i - 1)

ISqrt(v) == CHOOSE r \in 0 .. v : r * r <= v /\ (r + 1) * (r + 1) > v

\* np.mean(scores)
Mean(s) == Frac(SumTo(s, Len(s)), Len(s))

\* np.std(scores): sqrt(mean(x^2) - mean(x)^2) = sqrt(n*sum(x^2) - sum(x)^2) / n
Std(s) ==
    Frac(ISqrt(Len(s) * SumSqTo(s, Len(s)) - SumTo(s, Len(s)) * SumTo(s, Len(s))),
         Len(s))

\* Mutant: the mean is used as the norm factor without the epsilon floor.
norm_factor_unfloored(mean_score) == mean_score

\* norm_factor = np.max([mean_score, np.finfo(float).eps])
NormFactor(mean_score) ==
    IF FracLe(Whole(Eps), mean_score) THEN mean_score ELSE Whole(Eps)

\* mean_score + self.params.sigma_k * sigma_score (both over the denominator n)
SigmaThreshold(mean_score, sigma_k, sigma_score) ==
    Frac(mean_score[1] + sigma_k * sigma_score[1], mean_score[2])

\* threshs = np.array([k-sigma, by_fpr, by_tpr])
Threshs(sigma_th, fpr_th, tpr_th) == <<sigma_th, fpr_th, tpr_th>>

ParamKeys == {"max_fpr", "min_tpr", "sigma_k"}

\* The asserts on params, the statistics, the three policies, the division.
\* A failing assert propagates; a None from the TPR policy makes the array an
\* object array whose division raises TypeError.
calc_thresholds(prms, fpr, tpr, ths, scs) ==
    IF ~ (ParamKeys \subseteq DOMAIN prms) THEN Raises("AssertionError")
    ELSE LET mean_score == Mean(scs)
             sigma_score == Std(scs)
             norm_factor == NormFactor(mean_score)
             by_fpr == binary_clf_thresh_by_fpr(ths, fpr, prms.max_fpr)
             by_tpr == binary_clf_thresh_by_tpr(ths, tpr, prms.min_tpr)
         IN  IF by_tpr.kind = "AssertionError" THEN by_tpr
             ELSE IF by_tpr.kind = "None" THEN Raises("TypeError")
             ELSE LET threshs ==
                          Threshs(SigmaThreshold(mean_score, prms.sigma_k,
                                                 sigma_score),
                                  Whole(by_fpr.val), Whole(by_tpr.val))
                  IN  [kind |-> "value",
                       norm_threshs |->
                           [i \in 1 .. 3 |-> FracDiv(threshs[i], norm_factor)],
                       norm_factor |-> norm_factor]

---------------------------------------------------------------------------
(* Specification of the calibration: Init draws the curve, the scores and  *)
(* params; the action applies calc_thresholds.                             *)

\* A rate sequence as roc_curve yields it: from 0 up to 1.0, non-decreasing.
RocRates(n) ==
    {s \in SeqsOfLen(0 .. One, n) :
        NonDecreasing(s) /\ s[1] = 0 /\ s[n] = One}

ParamsDrawn ==
    LET full == {[max_fpr |-> a, min_tpr |-> b, sigma_k |-> k] :
                    a \in 1 .. One, b \in 1 .. One, k \in SigmaKs}
    IN  full \cup {[max_fpr |-> One, min_tpr |-> One + 1, sigma_k |-> 2],
                   [max_fpr |-> One, min_tpr |-> One],
                   [max_fpr |-> One, sigma_k |-> 2],
                   [min_tpr |-> One, sigma_k |-> 2]}

CalibInit ==
    /\ \E n \in 2 .. MaxLen :
          roc \in [thresholds : ThresholdSeqs(n), fpr : RocRates(n),
                   tpr : RocRates(n)]
    /\ \E n \in 1 .. MaxScores : scores \in SeqsOfLen(ScoreValues, n)
    /\ cparams \in ParamsDrawn
    /\ calc_ret = [kind |-> "pending"]
    /\ ThreshIdle
    /\ DetIdle
    /\ FitIdle

CalcThresholds ==
    /\ calc_ret.kind = "pending"
    /\ calc_ret' = calc_thresholds(cparams, roc.fpr, roc.tpr, roc.thresholds,
                                   scores)
    /\ UNCHANGED <<roc, scores, cparams, thresh_vars, det_vars, fit_vars>>

CalibNext == CalcThresholds

SpecCalib == CalibInit /\ [][CalibNext]_vars

---------------------------------------------------------------------------
(* Claims about calc_thresholds (checked under SpecCalib).                 *)

\* params holds the three keys with max_fpr and min_tpr within (0, 1].
ParamsValid ==
    /\ ParamKeys \subseteq DOMAIN cparams
    /\ cparams.max_fpr \in 1 .. One
    /\ cparams.min_tpr \in 1 .. One

\* The raw thresholds as the claim names them, in its order.
RawSigma == Frac(SumTo(scores, Len(scores)) + cparams.sigma_k * Std(scores)[1],
                 Len(scores))

RawByFpr ==
    IF CrossingIn(roc.fpr, cparams.max_fpr) = {}
    THEN roc.thresholds[Len(roc.thresholds)]
    ELSE roc.thresholds[Least(CrossingIn(roc.fpr, cparams.max_fpr))]

RawByTpr == roc.thresholds[Least(QualifyingIn(roc.tpr, cparams.min_tpr))]

\* C5: for every non-empty score sequence, also with a zero or negative
\* mean, calc_thresholds returns norm_factor = max(mean, eps) > 0 and exactly
\* three normalized thresholds in the order [k-sigma, max-FPR, min-TPR], each
\* the raw threshold divided by that norm_factor.
C5_NormFactorAndOrder ==
    (calc_ret.kind # "pending" /\ ParamsValid) =>
        /\ calc_ret.kind = "value"
        /\ FracPos(calc_ret.norm_factor)
        /\ FracLe(Whole(Eps), calc_ret.norm_factor)
        /\ FracLe(Mean(scores), calc_ret.norm_factor)
        /\ \/ FracEq(calc_ret.norm_factor, Mean(scores))
           \/ FracEq(calc_ret.norm_factor, Whole(Eps))
        /\ DOMAIN calc_ret.norm_threshs = 1 .. 3
        /\ FracEq(FracMul(calc_ret.norm_threshs[1], calc_ret.norm_factor), RawSigma)
        /\ FracEq(FracMul(calc_ret.norm_threshs[2], calc_ret.norm_factor),
                  Whole(RawByFpr))
        /\ FracEq(FracMul(calc_ret.norm_threshs[3], calc_ret.norm_factor),
                  Whole(RawByTpr))

\* C5 witness: a negative mean, floored to eps, with the FPR and TPR
\* thresholds different from each other.
C5_Witness ==
    /\ calc_ret.kind = "value" /\ ParamsValid
    /\ Mean(scores)[1] < 0
    /\ calc_ret.norm_factor = Whole(Eps)
    /\ RawByFpr # RawByTpr
    /\ calc_ret.norm_threshs[2] = Frac(RawByFpr, Eps)
    /\ calc_ret.norm_threshs[3] = Frac(RawByTpr, Eps)

---------------------------------------------------------------------------
(* src/base_ano_det.py and src/dadgt/dadgt_utils.py: the DADGT detector.   *)
(*                                                                         *)
(* det holds the instance attributes; an attribute that was never assigned *)
(* (model, learner, weight_name) is None, and reading it raises            *)
(* AttributeError.  A model object is the number of the create_model call  *)
(* that built it.  last.did lists what the latest call did before it       *)
(* returned or raised: "seed", "fit", "load_checkpoint", "score".          *)
(* hist.done holds the lifecycle calls that have completed so far,         *)
(* hist.setup_current tells whether setup_train completed after the latest *)
(* prepare_experiment and model creation, hist.calibrated is the norm      *)
(* factor the latest completed evaluate_test returned.                     *)

\* Largest experiment number reached.
MaxExpNo == 1

\* Most model objects built.
MaxModels == 2

\* The values of test_target drawn.
Targets == {"A"}

\* The raw score vectors predict yields or normalize_score is given.
DetScores == {<<1>>, <<3, 1>>}

\* The values params.distance_norm_factor is set to by the user.
NormFactorsSet == {Whole(3)}

Ok(op, args, r, did) ==
    [op |-> op, args |-> args, kind |-> "ok", ret |-> r, did |-> did]

Fail(op, args, e, did) ==
    [op |-> op, args |-> args, kind |-> e, ret |-> None, did |-> did]

\* Mutant: the counter restarts at 0 on every call without an explicit id.
experiment_no_restarts(cur, arg) == IF arg = None THEN Some(0) ELSE arg

\* Mutant: the first automatic number is 1.
experiment_no_from_one(cur, arg) ==
    IF arg = None
    THEN IF cur = None THEN Some(1) ELSE Some(cur[1] + 1)
    ELSE arg

\* BaseAnoDet.prepare_experiment: the new value of self.experiment_no.
next_experiment_no(cur, arg) ==
    IF arg = None
    THEN IF cur = None THEN Some(0) ELSE Some(cur[1] + 1)
    ELSE arg

\* BaseAnoDet.__init__ followed by nothing else.
FreshDet ==
    [experiment_no |-> None, test_target |-> None, model |-> None,
     learner |-> None, weight_name |-> None]

ExperimentArgs == {None} \cup {Some(i) : i \in 0 .. MaxExpNo}

TargetArgs == {None} \cup {Some(t) : t \in Targets}

PrepareExperiment ==
    \E e \in ExperimentArgs, t \in TargetArgs :
        /\ (e = None /\ det.experiment_no # None) => det.experiment_no[1] < MaxExpNo
        /\ det' = [det EXCEPT !.experiment_no = next_experiment_no(@, e),
                              !.test_target = t]
        /\ last' = Ok("prepare_experiment", <<e, t>>, None, {})
        /\ hist' = [hist EXCEPT !.done = @ \cup {"prepare_experiment"},
                                !.setup_current = FALSE]
        /\ UNCHANGED <<params, world, thresh_vars, calib_vars, fit_vars>>

\* DADGT.create_model / DADGT.load_model: self.model = create_model(...), a new
\* model object; torch.load of a bad weight file raises before the assignment.
BuildModel(op, weight_files) ==
    \E wf \in weight_files :
        IF wf = "bad"
        THEN /\ last' = Fail(op, <<wf>>, "ModelLoadError", {})
             /\ UNCHANGED <<det, world, hist>>
        ELSE /\ world.n_models < MaxModels
             /\ world' = [world EXCEPT !.n_models = @ + 1]
             /\ det' = [det EXCEPT !.model = Some(world.n_models + 1)]
             /\ last' = Ok(op, <<wf>>, None, {})
             /\ hist' = [hist EXCEPT !.done = @ \cup {op},
                                     !.setup_current = FALSE]

CreateModel ==
    /\ BuildModel("create_model", {"none", "good", "bad"})
    /\ UNCHANGED <<params, thresh_vars, calib_vars, fit_vars>>

LoadModel ==
    /\ BuildModel("load_model", {"good", "bad"})
    /\ UNCHANGED <<params, thresh_vars, calib_vars, fit_vars>>

\* Mutant: a missing experiment number is taken as 0 instead of failing.
setup_train_unprepared_ok(d) ==
    IF d.model = None THEN "AttributeError" ELSE "ok"

\* DADGT.setup_train: params.seed + None raises TypeError before anything is
\* done; self.model is read after the seeding and after weight_name is set.
setup_train_outcome(d) ==
    IF d.experiment_no = None THEN "TypeError"
    ELSE IF d.model = None THEN "AttributeError"
    ELSE "ok"

SetupTrain ==
    LET kind == setup_train_outcome(det) IN
    /\ \/ /\ kind = "TypeError"
          /\ last' = Fail("setup_train", <<>>, kind, {})
          /\ UNCHANGED <<det, hist>>
       \/ /\ kind = "AttributeError"
          /\ det' = [det EXCEPT !.weight_name = Some(det.test_target)]
          /\ last' = Fail("setup_train", <<>>, kind, {"seed"})
          /\ UNCHANGED hist
       \/ /\ kind = "ok"
          /\ det' = [det EXCEPT !.weight_name = Some(det.test_target),
                                !.learner = Some([model |-> det.model[1],
                                                  files |-> TRUE])]
          /\ last' = Ok("setup_train", <<>>, None, {"seed"})
          /\ hist' = [hist EXCEPT !.done = @ \cup {"setup_train"},
                                  !.setup_current = TRUE]
    /\ UNCHANGED <<params, world, thresh_vars, calib_vars, fit_vars>>

\* DADGT.train_model: reads self.weight_name, then self.learner; trainer.fit
\* asks the learner for train_files, which setup_runtime's learner lacks.
train_model_outcome(d) ==
    IF d.weight_name = None THEN "AttributeError"
    ELSE IF d.learner = None THEN "AttributeError"
    ELSE IF ~ d.learner[1].files THEN "AttributeError"
    ELSE "ok"

\* fit trains the learner's model; load_saved_checkpoint loads the newest
\* checkpoint into self.model.  The call returns None; last.ret names the
\* model trained and the model restored.
TrainModel ==
    LET kind == train_model_outcome(det) IN
    /\ last' = IF kind = "ok"
               THEN Ok("train_model", <<>>,
                       Some([fit |-> det.learner[1].model,
                             restored |-> det.model[1]]),
                       {"fit", "load_checkpoint"})
               ELSE Fail("train_model", <<>>, kind, {})
    /\ UNCHANGED <<det, params, world, hist, thresh_vars, calib_vars, fit_vars>>

\* DADGT.setup_runtime: a learner over self.model without files.
setup_runtime_outcome(d) == IF d.model = None THEN "AttributeError" ELSE "ok"

SetupRuntime ==
    LET kind == setup_runtime_outcome(det) IN
    /\ IF kind = "ok"
       THEN /\ det' = [det EXCEPT !.learner = Some([model |-> det.model[1],
                                                    files |-> FALSE])]
            /\ last' = Ok("setup_runtime", <<>>, None, {})
            /\ hist' = [hist EXCEPT !.done = @ \cup {"setup_runtime"}]
       ELSE /\ last' = Fail("setup_runtime", <<>>, kind, {})
            /\ UNCHANGED <<det, hist>>
    /\ UNCHANGED <<params, world, thresh_vars, calib_vars, fit_vars>>

\* DADGT.predict: scores by self.learner's model.
predict_outcome(d) == IF d.learner = None THEN "AttributeError" ELSE "ok"

Predict ==
    LET kind == predict_outcome(det) IN
    /\ IF kind = "ok"
       THEN /\ \E scs \in DetScores :
                   last' = Ok("predict", <<>>, Some(scs), {"score"})
       ELSE last' = Fail("predict", <<>>, kind, {})
    /\ UNCHANGED <<det, params, world, hist, thresh_vars, calib_vars, fit_vars>>

\* Mutant: without a norm factor the scores are returned as they are.
normalize_unset_passthrough(prms, scs) ==
    IF "distance_norm_factor" \notin DOMAIN prms
    THEN Value([i \in 1 .. Len(scs) |-> Whole(scs[i])])
    ELSE Value([i \in 1 .. Len(scs) |->
                   FracDiv(Whole(scs[i]), prms.distance_norm_factor)])

\* BaseAnoDet.normalize_score
normalize_score(prms, scs) ==
    IF "distance_norm_factor" \notin DOMAIN prms
    THEN Raises("ValueError")
    ELSE Value([i \in 1 .. Len(scs) |->
                   FracDiv(Whole(scs[i]), prms.distance_norm_factor)])

NormalizeScore ==
    \E scs \in DetScores :
        LET out == normalize_score(params, scs) IN
        /\ last' = IF out.kind = "value"
                   THEN Ok("normalize_score", <<scs>>, Some(out.val), {})
                   ELSE Fail("normalize_score", <<scs>>, out.kind, {})
        /\ UNCHANGED <<det, params, world, hist, thresh_vars, calib_vars, fit_vars>>

\* The curve sklearn's roc_curve hands to calc_thresholds: two points.
EvalCurves ==
    {[thresholds |-> <<2, 1>>, fpr |-> <<0, One>>, tpr |-> <<0, One>>]}

\* BaseAnoDet.evaluate_test: predict, roc_curve, calc_thresholds; the norm
\* factor is returned to the caller and nothing is stored.
EvaluateTest ==
    /\ IF predict_outcome(det) # "ok"
       THEN /\ last' = Fail("evaluate_test", <<>>, predict_outcome(det), {})
            /\ UNCHANGED hist
       ELSE \E scs \in DetScores, c \in EvalCurves :
               LET out == calc_thresholds(params, c.fpr, c.tpr, c.thresholds, scs)
               IN  IF out.kind = "value"
                   THEN /\ last' = Ok("evaluate_test", <<>>,
                                      Some(out.norm_factor), {"score"})
                        /\ hist' = [hist EXCEPT
                                       !.calibrated = Some(out.norm_factor)]
                   ELSE /\ last' = Fail("evaluate_test", <<>>, out.kind, {"score"})
                        /\ UNCHANGED hist
    /\ UNCHANGED <<det, params, world, thresh_vars, calib_vars, fit_vars>>

\* The user's step "Set distance_norm_factor in params".
SetNormFactor ==
    \E v \in NormFactorsSet :
        /\ params' = [k \in DOMAIN params \cup {"distance_norm_factor"} |->
                         IF k = "distance_norm_factor" THEN v ELSE params[k]]
        /\ last' = Ok("set_params", <<>>, None, {})
        /\ UNCHANGED <<det, world, hist, thresh_vars, calib_vars, fit_vars>>

DetInit ==
    /\ det = FreshDet
    /\ params \in {[seed |-> 0, max_fpr |-> One, min_tpr |-> One, sigma_k |-> 2],
                   [seed |-> 0, max_fpr |-> One, sigma_k |-> 2]}
    /\ world = [n_models |-> 0]
    /\ last = NoCall
    /\ hist = [done |-> {}, setup_current |-> FALSE, calibrated |-> None]
    /\ ThreshIdle
    /\ CalibIdle
    /\ FitIdle

DetNext ==
    \/ PrepareExperiment
    \/ CreateModel
    \/ LoadModel
    \/ SetupTrain
    \/ TrainModel
    \/ SetupRuntime
    \/ Predict
    \/ NormalizeScore
    \/ EvaluateTest
    \/ SetNormFactor

SpecDet == DetInit /\ [][DetNext]_vars

---------------------------------------------------------------------------
(* Claims about the detector (checked under SpecDet).  A step of an        *)
(* operation is recognised by last'.op; a stuttering step changes nothing. *)

\* C6: experiment_no is None before any call; prepare_experiment without an
\* explicit id sets it to 0 if it was None and to its previous value plus 1
\* otherwise; with an explicit id it sets it to that id; every call
\* overwrites test_target with the argument and changes nothing else.
C6_PrepareUpdateRule ==
    /\ (last.op = "none" => det.experiment_no = None)
    /\ [][last'.op = "prepare_experiment" =>
            LET e == last'.args[1]
                t == last'.args[2]
            IN  /\ e = None /\ det.experiment_no = None =>
                       det'.experiment_no = Some(0)
                /\ e = None /\ det.experiment_no # None =>
                       det'.experiment_no = Some(det.experiment_no[1] + 1)
                /\ e # None => det'.experiment_no = e
                /\ det'.test_target = t
                /\ det'.model = det.model
                /\ det'.learner = det.learner
                /\ det'.weight_name = det.weight_name
                /\ params' = params
                /\ world' = world]_vars

\* C6 witness: an automatic number above 0 and a test_target overwritten
\* with None.
C6_Witness ==
    /\ last.op = "prepare_experiment"
    /\ last.args[1] = None
    /\ det.experiment_no = Some(1)
    /\ det.test_target = None
    /\ det.model # None

\* C7 (as claimed): once set, experiment_no never decreases from one call to
\* the next, with or without explicit ids.
C7_NeverDecreases ==
    [][det.experiment_no # None =>
          /\ det'.experiment_no # None
          /\ det'.experiment_no[1] >= det.experiment_no[1]]_vars

\* C7 (amended): once set, experiment_no never decreases from one call to
\* the next unless prepare_experiment is given an explicit id below the
\* current value, which sets it to that lower id; without an explicit id it
\* grows by exactly 1.
C7_DecreasesOnlyByExplicitId ==
    [][det.experiment_no # None =>
          /\ det'.experiment_no # None
          /\ \/ det'.experiment_no[1] >= det.experiment_no[1]
             \/ /\ last'.op = "prepare_experiment"
                /\ last'.args[1] # None
                /\ last'.args[1][1] < det.experiment_no[1]
                /\ det'.experiment_no = last'.args[1]
          /\ (last'.op = "prepare_experiment" /\ last'.args[1] = None) =>
                 det'.experiment_no[1] = det.experiment_no[1] + 1]_vars

\* C7 witness: an explicit id of 0 given when the counter was already set
\* (setup_train had completed, which needs a number).
C7_Witness ==
    /\ last.op = "prepare_experiment"
    /\ last.args[1] = Some(0)
    /\ det.experiment_no = Some(0)
    /\ "setup_train" \in hist.done

\* C8 (as claimed): normalize_score succeeds exactly when evaluate_test has
\* completed or distance_norm_factor has been set in params.
C8_SucceedsOnceCalibrated ==
    last.op = "normalize_score" =>
        (last.kind = "ok" <=>
            (hist.calibrated # None \/ "distance_norm_factor" \in DOMAIN params))

\* C8 (amended): normalize_score fails with ValueError exactly when params
\* has no distance_norm_factor, whether or not evaluate_test has completed
\* (evaluate_test returns the norm factor and leaves params alone); otherwise
\* it returns the scores divided by params.distance_norm_factor; in both
\* cases params and the detector are unchanged.
C8_FailsIffParamUnset ==
    [][/\ last'.op = "evaluate_test" => params' = params
       /\ last'.op = "normalize_score" =>
            /\ det' = det /\ params' = params /\ world' = world
            /\ last'.kind \in {"ok", "ValueError"}
            /\ last'.kind = "ValueError" <=>
                   "distance_norm_factor" \notin DOMAIN params
            /\ last'.kind = "ok" =>
                   LET scs == last'.args[1]
                       out == last'.ret[1]
                   IN  /\ DOMAIN out = DOMAIN scs
                       /\ \A i \in DOMAIN scs :
                              FracEq(FracMul(out[i], params.distance_norm_factor),
                                     Whole(scs[i]))]_vars

\* C8 witness: a successful normalize_score after a calibration run that
\* returned another norm factor than the one set in params.
C8_Witness ==
    /\ last.op = "normalize_score" /\ last.kind = "ok"
    /\ hist.calibrated # None
    /\ ~ FracEq(hist.calibrated[1], params.distance_norm_factor)
    /\ Len(last.args[1]) = 2
    /\ FracEq(FracMul(last.ret[1][1], params.distance_norm_factor),
              Whole(last.args[1][1]))

LifecycleOps == {"setup_train", "train_model", "setup_runtime", "predict"}

ModelBuilt == hist.done \cap {"create_model", "load_model"} # {}

\* What holds of every call, whichever reading of "setup_train before
\* train_model" is taken.  load_model builds the model as create_model does.
LifecycleOrder ==
    /\ (last.op = "setup_train" /\ last.kind = "ok") =>
           "prepare_experiment" \in hist.done /\ ModelBuilt
    /\ (last.op = "setup_runtime" /\ last.kind = "ok") => ModelBuilt
    /\ (last.op = "predict" /\ last.kind = "ok") =>
           hist.done \cap {"setup_train", "setup_runtime"} # {}
    /\ (last.op \in LifecycleOps /\ last.kind # "ok") =>
           /\ last.did \cap {"fit", "load_checkpoint", "score"} = {}
           /\ last.ret = None

---------------------------------------------------------------------------
(* src/anotwin/train.py: train_model's fit loop.                           *)
(*                                                                         *)
(* Losses are integers counted in units of 1e6, so that the initial        *)
(* best_loss of 1e10 is InitBestLoss; an epoch loss is the exact fraction  *)
(* running_loss / dataset size.  Every batch holds one sample, so the      *)
(* dataset size of a phase is its number of batches.  The live weights are *)
(* the number of optimizer steps applied to them.  A snapshot is what      *)
(* _get_model_wts returns: state_dict() hands out the live tensors, so a   *)
(* snapshot shares their storage; its field taken tells the epoch at which *)
(* it was made (None for the one made before the loop).  wts_hist keeps    *)
(* the live weights as they were at the end of each epoch.                 *)

\* best_loss = 1e10, in units of 1e6.
InitBestLoss == 10000

\* Largest num_epochs drawn.
MaxEpochs == 3

\* Numbers of batches a dataloader yields.
BatchCounts == {1, 2}

\* Values of flooding_b drawn.
FloodingBs == {0, 2}

\* Batch losses the criterion yields.
TrainLosses == {1, 2, 3}

ValLosses == {1, 2, InitBestLoss}

FracLt(a, b) == a[1] * b[2] < b[1] * a[2]

Abs(x) == IF x < 0 THEN 0 - x ELSE x

\* torch_flooding
torch_flooding(loss, b) == Abs(loss - b) + b

\* Mutant: flooding is applied in the validation phase too.
batch_loss_any_phase(phase, loss, b) ==
    IF b > 0 THEN torch_flooding(loss, b) ELSE loss

\* The loss of one batch as it enters running_loss.
batch_loss(phase, loss, b) ==
    IF b > 0 /\ phase = "train" THEN torch_flooding(loss, b) ELSE loss

\* _get_model_wts(det), called at epoch e (None before the loop and after it).
get_model_wts(e) == [storage |-> "live", taken |-> e]

\* What a snapshot holds when it is read while the live weights are w.
read_wts(snapshot, w) == w

\* Mutant: a tie replaces the best snapshot (<=).
is_new_best_on_tie(phase, epoch_loss, epoch_acc, best_loss, best_acc) ==
    phase = "val" /\ FracLe(epoch_loss, best_loss)

\* if phase == 'val' and epoch_loss < best_loss
is_new_best(phase, epoch_loss, epoch_acc, best_loss, best_acc) ==
    phase = "val" /\ FracLt(epoch_loss, best_loss)

\* The end of a phase: epoch_loss, epoch_acc and the best-checkpoint update.
EndOfPhase(f, phase, raw, corrects) ==
    LET used == [i \in 1 .. f.nb |-> batch_loss(phase, raw[i], f.flooding_b)]
        epoch_loss == Frac(SumTo(used, f.nb), f.nb)
        epoch_acc == Frac(corrects, f.nb)
        g == [f EXCEPT !.epoch_loss = Some(epoch_loss),
                       !.epoch_acc = Some(epoch_acc),
                       !.batch = [phase |-> phase, raw |-> raw, used |-> used]]
    IN  IF is_new_best(phase, epoch_loss, epoch_acc, f.best_loss, f.best_acc)
        THEN [g EXCEPT !.best_acc = epoch_acc,
                       !.best_loss = epoch_loss,
                       !.best_model_wts = get_model_wts(Some(f.epoch))]
        ELSE g

FitInit ==
    /\ \E n \in 0 .. MaxEpochs, nb \in BatchCounts, b \in FloodingBs :
          fit = [pc |-> IF n = 0 THEN "finish" ELSE "train",
                 num_epochs |-> n, nb |-> nb, flooding_b |-> b,
                 epoch |-> 0, wts |-> 0,
                 best_model_wts |-> get_model_wts(None),
                 best_acc |-> Whole(0), best_loss |-> Whole(InitBestLoss),
                 epoch_loss |-> None, epoch_acc |-> None,
                 batch |-> [phase |-> "none", raw |-> <<>>, used |-> <<>>],
                 val_hist |-> <<>>, wts_hist |-> <<>>, result |-> None]
    /\ ThreshIdle
    /\ CalibIdle
    /\ DetIdle

\* The train phase of one epoch: every batch is an optimizer step.
TrainPhase ==
    /\ fit.pc = "train"
    /\ \E raw \in SeqsOfLen(TrainLosses, fit.nb), corrects \in {0, fit.nb} :
          fit' = [EndOfPhase(fit, "train", raw, corrects) EXCEPT
                     !.pc = "val", !.wts = @ + fit.nb]
    /\ UNCHANGED <<thresh_vars, calib_vars, det_vars>>

\* The validation phase of one epoch (no optimizer step); val_hist keeps
\* its epoch loss and wts_hist the live weights at the end of the epoch.
ValPhase ==
    /\ fit.pc = "val"
    /\ \E raw \in SeqsOfLen(ValLosses, fit.nb), corrects \in {0, fit.nb} :
          LET g == EndOfPhase(fit, "val", raw, corrects) IN
          fit' = [g EXCEPT
                     !.val_hist = Append(@, g.epoch_loss[1]),
                     !.wts_hist = Append(@, fit.wts),
                     !.epoch = @ + 1,
                     !.pc = IF fit.epoch + 1 < fit.num_epochs
                            THEN "train" ELSE "finish"]
    /\ UNCHANGED <<thresh_vars, calib_vars, det_vars>>

\* After the loop: last_wts = _get_model_wts(det); _set_model_wts(det,
\* best_model_wts) copies what the best snapshot holds into the live
\* weights; the dict is returned.
Finish ==
    /\ fit.pc = "finish"
    /\ LET last_wts == get_model_wts(None) IN
       fit' = [fit EXCEPT
                  !.pc = "done",
                  !.wts = read_wts(fit.best_model_wts, fit.wts),
                  !.result = Some([best_acc |-> fit.best_acc,
                                   best_loss |-> fit.best_loss,
                                   last_weights |-> last_wts,
                                   best_weights |-> fit.best_model_wts])]
    /\ UNCHANGED <<thresh_vars, calib_vars, det_vars>>

FitNext == TrainPhase \/ ValPhase \/ Finish

SpecFit == FitInit /\ [][FitNext]_vars

---------------------------------------------------------------------------
(* Claims about the fit loop (checked under SpecFit).                      *)

\* The epochs (1-based positions in val_hist) whose validation loss is below
\* the initial best_loss.
BelowInit ==
    {e \in 1 .. Len(fit.val_hist) :
        FracLt(fit.val_hist[e], Whole(InitBestLoss))}

\* e is the earliest epoch attaining the minimum validation loss.
EarliestMin(e) ==
    /\ \A j \in 1 .. Len(fit.val_hist) : FracLe(fit.val_hist[e], fit.val_hist[j])
    /\ \A j \in 1 .. e - 1 : FracLt(fit.val_hist[e], fit.val_hist[j])

\* C10: after every epoch best_loss is the minimum validation epoch loss so
\* far, or the initial 1e10 if none is lower, and the best snapshot is the
\* one taken at the earliest epoch attaining it (strict <: never on a tie,
\* never by accuracy, never from the train phase); with no epochs or no
\* validation loss below 1e10 it stays the initial snapshot.
C10_BestIsEarliestMinimum ==
    fit.pc # "idle" =>
        IF BelowInit = {}
        THEN /\ fit.best_loss = Whole(InitBestLoss)
             /\ fit.best_model_wts.taken = None
        ELSE \E e \in BelowInit :
                /\ EarliestMin(e)
                /\ fit.best_loss = fit.val_hist[e]
                /\ fit.best_model_wts.taken = Some(e - 1)

\* C10 witness: three epochs, the second better than the first, the third
\* tying with the second with a higher accuracy: the snapshot of epoch
\* index 1 is kept.
C10_Witness ==
    /\ fit.pc = "finish" /\ Len(fit.val_hist) = 3
    /\ FracLt(fit.val_hist[2], fit.val_hist[1])
    /\ FracEq(fit.val_hist[3], fit.val_hist[2])
    /\ fit.best_model_wts.taken = Some(1)
    /\ FracLt(fit.best_acc, fit.epoch_acc[1])

\* The weight values the model had when a snapshot was taken: the initial
\* weights for the one made before the loop, else those at the end of the
\* epoch at which it was made.
WtsWhenTaken(snapshot) ==
    IF snapshot.taken = None THEN 0 ELSE fit.wts_hist[snapshot.taken[1] + 1]

\* The weight values at the end of the final epoch.
WtsAtEnd ==
    IF fit.wts_hist = <<>> THEN 0 ELSE fit.wts_hist[Len(fit.wts_hist)]

\* C11: when train_model has returned, the live weights and the returned
\* best_weights both hold the weight values of the end of the best
\* validation-loss epoch, and the returned last_weights hold those of the
\* end of the final epoch; so best_weights differs from last_weights
\* whenever the best epoch is not the last one (every later epoch changes
\* the weights).  Stated for the runs in which some validation epoch became
\* the best one.
C11_BestWeightsAreBestEpochs ==
    (fit.pc = "done" /\ fit.result[1].best_weights.taken # None) =>
        LET r == fit.result[1]
            best == read_wts(r.best_weights, fit.wts)
            lastw == read_wts(r.last_weights, fit.wts)
        IN  /\ fit.wts = WtsWhenTaken(r.best_weights)
            /\ best = WtsWhenTaken(r.best_weights)
            /\ lastw = WtsAtEnd
            /\ (WtsWhenTaken(r.best_weights) # WtsAtEnd => best # lastw)

\* The mean of the criterion's losses of the latest phase, as they were
\* before any flooding.
UnfloodedEpochLoss == Frac(SumTo(fit.batch.raw, fit.nb), fit.nb)

\* C12: a batch loss is flooded only in the train phase and only when
\* flooding_b > 0; it then becomes |loss - b| + b, which is >= b and equals
\* b when loss = b.  Every other batch loss is the criterion's own; so the
\* validation epoch loss, the one compared with best_loss, is the mean of
\* the un-flooded losses, and best_loss never exceeds it.
C12_FloodingTrainOnly ==
    (fit.pc # "idle" /\ fit.batch.phase # "none") =>
        /\ \A i \in 1 .. fit.nb :
              LET loss == fit.batch.raw[i]
                  used == fit.batch.used[i]
                  b == fit.flooding_b
              IN  IF fit.batch.phase = "train" /\ b > 0
                  THEN /\ used = (IF loss < b THEN b - loss ELSE loss - b) + b
                       /\ used >= b
                       /\ (loss = b => used = b)
                  ELSE used = loss
        /\ fit.batch.phase = "val" =>
              /\ fit.epoch_loss = Some(UnfloodedEpochLoss)
              /\ fit.val_hist[Len(fit.val_hist)] = UnfloodedEpochLoss
              /\ FracLe(fit.best_loss, UnfloodedEpochLoss)

\* C12 witness: with flooding_b = 2 an earlier validation epoch kept its
\* loss of 1, below b, and became the best; the train phase that follows
\* floods a batch loss of 1 to 3 and leaves a batch loss of 2 at 2.
C12_Witness ==
    /\ fit.flooding_b = 2
    /\ fit.batch = [phase |-> "train", raw |-> <<1, 2>>, used |-> <<3, 2>>]
    /\ Len(fit.val_hist) = 1
    /\ fit.val_hist[1] = Frac(2, 2)
    /\ fit.best_loss = Frac(2, 2)

=============================================================================
